---- MODULE Spec2Model ----
(***************************************************************************)
(* Model of the Lexicon Store of src/KhmerEnglish_Dictionary.py: the       *)
(* SQLite table `dictionary`, the CRUD methods of DictionaryDatabase and   *)
(* the SQL statements DictionaryManagerWidget issues on its own.           *)
(*                                                                         *)
(* Text is a sequence of one-character strings, so that lower(), strip()   *)
(* and LIKE are computed character by character.  Python's None and SQL's  *)
(* NULL are the one-element sequence None, which no text equals.           *)
(***************************************************************************)
EXTENDS Integers, Sequences, FiniteSets, TLC

VARIABLES
    dictionary,       \* the rows of table `dictionary` (a set of records)
    sqlite_sequence,  \* AUTOINCREMENT's high-water mark for the table
    now,              \* the value CURRENT_TIMESTAMP yields
    ever,             \* history: every id a row was ever inserted with
    nops,             \* history: number of calls made so far
    open_conns,       \* connections opened by a call and not closed by it
    signal,           \* the Qt signal the most recent call emitted, <<>> if none
    filter_text,      \* the text of the manager's filter_input
    table_model,      \* the rows the manager's table shows (a sequence)
    last              \* history: the most recent call, its arguments and outcome

vars == <<dictionary, sqlite_sequence, now, ever, nops, open_conns, signal,
          filter_text, table_model, last>>

(* ------------------------------ bounds -------------------------------- *)

\* Calls explored per behaviour.
MaxOps == 2
\* Largest value of the clock.
MaxClock == 1

(* ------------------------------- text --------------------------------- *)

None == <<"None">>
\* A parameter the caller left out, so that Python's default applies.
Absent == <<"Absent">>

\* str.lower() on one character.
LowerChar(c) ==
    CASE c = "A" -> "a"
      [] c = "B" -> "b"
      [] c = "K" -> "k"
      [] OTHER -> c

\* str.lower()
lower(s) == [i \in 1..Len(s) |-> LowerChar(s[i])]

IsSpace(c) == c = " "

RECURSIVE lstrip(_)
lstrip(s) == IF s # <<>> /\ IsSpace(Head(s)) THEN lstrip(Tail(s)) ELSE s

RECURSIVE rstrip(_)
rstrip(s) ==
    IF s # <<>> /\ IsSpace(s[Len(s)]) THEN rstrip(SubSeq(s, 1, Len(s) - 1)) ELSE s

\* str.strip()
strip(s) == rstrip(lstrip(s))

\* The byte SQLite's BINARY collation compares (the ASCII code).
Code(c) ==
    CASE c = " " -> 32
      [] c = "%" -> 37
      [] c = "A" -> 65
      [] c = "B" -> 66
      [] c = "K" -> 75
      [] c = "_" -> 95
      [] c = "a" -> 97
      [] c = "b" -> 98
      [] c = "c" -> 99
      [] c = "d" -> 100
      [] c = "e" -> 101
      [] c = "k" -> 107
      [] c = "n" -> 110
      [] c = "o" -> 111
      [] c = "r" -> 114
      [] c = "u" -> 117
      [] c = "v" -> 118
      [] OTHER -> 0

\* memcmp order of two texts; NULL sorts before every text.
RECURSIVE TextLess(_, _)
TextLess(s, t) ==
    IF s = None \/ t = None THEN s = None /\ t # None
    ELSE IF t = <<>> THEN FALSE
    ELSE IF s = <<>> THEN TRUE
    ELSE IF Code(Head(s)) # Code(Head(t)) THEN Code(Head(s)) < Code(Head(t))
    ELSE TextLess(Tail(s), Tail(t))

\* SQLite's LIKE: % is any run of characters, _ is any one character, and
\* ASCII letters match without regard to case.  NULL LIKE p is not true.
RECURSIVE LikeFrom(_, _)
LikeFrom(p, t) ==
    IF p = <<>> THEN t = <<>>
    ELSE IF Head(p) = "%" THEN
        \E k \in 0..Len(t) : LikeFrom(Tail(p), SubSeq(t, k + 1, Len(t)))
    ELSE IF t = <<>> THEN FALSE
    ELSE IF Head(p) = "_" THEN LikeFrom(Tail(p), Tail(t))
    ELSE LowerChar(Head(p)) = LowerChar(Head(t)) /\ LikeFrom(Tail(p), Tail(t))

Like(t, p) == t # None /\ LikeFrom(p, t)

(* ------------------------------ inputs -------------------------------- *)

noun == <<"n", "o", "u", "n">>
verb == <<"v", "e", "r", "b">>

\* Words given to create_word.
EnglishInputs == {<<"a">>, <<"A", " ">>, <<" ", "B">>, <<"a", "b">>}
\* Words given to an update.
RenameInputs == {<<"A", " ">>, <<"a", "b">>}
KhmerInputs == {<<" ", "K">>}
TypeInputs == {verb}
DefinitionInputs == {<<"d">>}
ExampleInputs == {<<"e">>}

\* Terms given to read_word for an English search.
SearchTerms == {<<"a">>, <<"B">>, <<" ", "a">>, <<"_">>, <<"%">>, <<"c">>}
\* Terms given to read_word for a Khmer search.
KhmerSearchTerms == {<<"k">>, <<"K">>, <<"e">>}

\* word_type, definition and example as create_word is called with them.
OptionalInputs ==
    {<<Absent, Absent, Absent>>, <<Absent, None, Absent>>}
        \cup (TypeInputs \X DefinitionInputs \X ExampleInputs)

\* Texts typed into the manager's filter_input.
FilterInputs == {<<>>, <<"B">>, <<"c">>}

\* limit of get_random_words: none, one, and the default of 5.
LimitInputs == {0, 1, 5}

\* Where a call can meet a persistence fault (sqlite3.OperationalError).
Faults == {"none", "connect", "execute", "commit"}

(* ------------------------------- table -------------------------------- *)

\* sample_data of init_database, cut down to one row of short text: like the
\* rows of the original list its word is lower-case and trimmed, and it gives
\* a definition and an example.
sample_data ==
    << <<<<"a", "b">>, <<"k">>, noun, <<"d">>, <<"e">>>> >>

Row(id, english_word, khmer_word, word_type, definition, example, created, updated) ==
    [id |-> id, english_word |-> english_word, khmer_word |-> khmer_word,
     word_type |-> word_type, definition |-> definition,
     example_sentence |-> example, created_at |-> created, updated_at |-> updated]

Ids(table) == {r.id : r \in table}

MaxOf(S) == IF S = {} THEN 0 ELSE CHOOSE m \in S : \A x \in S : x <= m

\* Mutant: the rowid of INTEGER PRIMARY KEY without AUTOINCREMENT.
NextRowidMax(table, seq) == MaxOf(Ids(table)) + 1

\* The rowid INTEGER PRIMARY KEY AUTOINCREMENT gives the next inserted row.
NextRowid(table, seq) == MaxOf(Ids(table) \cup {seq}) + 1

\* Mutant: the row being written counts as a holder of the word too.
UniqueClash_with_self(table, english_word, self) ==
    \E r \in table : r.english_word = english_word

\* UNIQUE on english_word (BINARY collation): would this text clash with a
\* row other than the one with id `self`?
UniqueClash(table, english_word, self) ==
    \E r \in table : r.id # self /\ r.english_word = english_word

\* What a call did: the table and sequence it leaves, the exception the caller
\* sees (err, "none" when the call returned), the sqlite3 exception underneath
\* (cause) and the value returned (ret).
Outcome(table, seq, err, cause, ret) ==
    [table |-> table, seq |-> seq, err |-> err, cause |-> cause, ret |-> ret]

\* One INSERT of (english_word, khmer_word, word_type, definition,
\* example_sentence) into st = [table, seq, clash]; id, created_at and
\* updated_at take their column defaults.
Insert(st, vals, clock) ==
    IF st.clash \/ UniqueClash(st.table, vals[1], 0) THEN [st EXCEPT !.clash = TRUE]
    ELSE LET id == NextRowid(st.table, st.seq)
         IN [table |-> st.table \cup
                 {Row(id, vals[1], vals[2], vals[3], vals[4], vals[5], clock, clock)},
             seq |-> id, clash |-> FALSE]

\* cursor.executemany: one INSERT per element, in order.
RECURSIVE executemany(_, _, _)
executemany(st, rows, clock) ==
    IF rows = <<>> THEN st
    ELSE executemany(Insert(st, Head(rows), clock), Tail(rows), clock)

(* ---------------------- DictionaryDatabase methods --------------------- *)

\* Mutant: sample_data is inserted only when the table was just created.
init_database_seeds_once(table, seq, clock, fault) ==
    IF fault # "none"
    THEN Outcome(table, seq, "sqlite3.OperationalError", "OperationalError", FALSE)
    ELSE IF table = {} /\ seq = 0
    THEN LET st == executemany([table |-> table, seq |-> seq, clash |-> FALSE],
                               sample_data, clock)
         IN Outcome(st.table, st.seq, "none", "none", TRUE)
    ELSE Outcome(table, seq, "none", "none", TRUE)

\* Mutant: the COUNT(*) check is left out, sample_data is always inserted.
init_database_always_seeds(table, seq, clock, fault) ==
    IF fault # "none"
    THEN Outcome(table, seq, "sqlite3.OperationalError", "OperationalError", FALSE)
    ELSE LET st == executemany([table |-> table, seq |-> seq, clash |-> FALSE],
                               sample_data, clock)
         IN IF st.clash
            THEN Outcome(table, seq, "sqlite3.IntegrityError", "IntegrityError", FALSE)
            ELSE Outcome(st.table, st.seq, "none", "none", TRUE)

\* init_database: no try block, so a fault reaches the caller as raised.
init_database(table, seq, clock, fault) ==
    IF fault # "none"
    THEN Outcome(table, seq, "sqlite3.OperationalError", "OperationalError", FALSE)
    ELSE IF table = {}
    THEN LET st == executemany([table |-> table, seq |-> seq, clash |-> FALSE],
                               sample_data, clock)
         IN IF st.clash
            THEN Outcome(table, seq, "sqlite3.IntegrityError", "IntegrityError", FALSE)
            ELSE Outcome(st.table, st.seq, "none", "none", TRUE)
    ELSE Outcome(table, seq, "none", "none", TRUE)

\* Mutant: khmer_word is stored as passed, not trimmed.
create_word_khmer_raw(table, seq, clock, english_word, khmer_word, word_type, definition, example, fault) ==
    LET t == IF word_type = Absent THEN noun ELSE word_type
        d == IF definition = Absent THEN <<>> ELSE definition
        x == IF example = Absent THEN <<>> ELSE example
        st == Insert([table |-> table, seq |-> seq, clash |-> FALSE],
                     <<strip(lower(english_word)), khmer_word, t, d, x>>, clock)
    IN IF fault = "connect"
       THEN Outcome(table, seq, "UnboundLocalError", "OperationalError", 0)
       ELSE IF fault = "execute"
       THEN Outcome(table, seq, "ValueError: Database error", "OperationalError", 0)
       ELSE IF st.clash
       THEN Outcome(table, seq, "ValueError: Word already exists", "IntegrityError", 0)
       ELSE IF fault = "commit"
       THEN Outcome(table, seq, "ValueError: Database error", "OperationalError", 0)
       ELSE Outcome(st.table, st.seq, "none", "none", st.seq)

\* Mutant: INSERT OR REPLACE, which drops the row holding the word.
create_word_or_replace(table, seq, clock, english_word, khmer_word, word_type, definition, example, fault) ==
    LET t == IF word_type = Absent THEN noun ELSE word_type
        d == IF definition = Absent THEN <<>> ELSE definition
        x == IF example = Absent THEN <<>> ELSE example
        kept == {r \in table : r.english_word # strip(lower(english_word))}
        st == Insert([table |-> kept, seq |-> seq, clash |-> FALSE],
                     <<strip(lower(english_word)), strip(khmer_word), t, d, x>>, clock)
    IN IF fault = "connect"
       THEN Outcome(table, seq, "UnboundLocalError", "OperationalError", 0)
       ELSE IF fault \in {"execute", "commit"}
       THEN Outcome(table, seq, "ValueError: Database error", "OperationalError", 0)
       ELSE Outcome(st.table, st.seq, "none", "none", st.seq)

\* Mutant: the value returned is cursor.rowcount, not cursor.lastrowid.
create_word_returns_rowcount(table, seq, clock, english_word, khmer_word, word_type, definition, example, fault) ==
    LET t == IF word_type = Absent THEN noun ELSE word_type
        d == IF definition = Absent THEN <<>> ELSE definition
        x == IF example = Absent THEN <<>> ELSE example
        st == Insert([table |-> table, seq |-> seq, clash |-> FALSE],
                     <<strip(lower(english_word)), strip(khmer_word), t, d, x>>, clock)
    IN IF fault = "connect"
       THEN Outcome(table, seq, "UnboundLocalError", "OperationalError", 0)
       ELSE IF fault = "execute"
       THEN Outcome(table, seq, "ValueError: Database error", "OperationalError", 0)
       ELSE IF st.clash
       THEN Outcome(table, seq, "ValueError: Word already exists", "IntegrityError", 0)
       ELSE IF fault = "commit"
       THEN Outcome(table, seq, "ValueError: Database error", "OperationalError", 0)
       ELSE Outcome(st.table, st.seq, "none", "none", 1)

\* create_word: connect is inside the try block, so when it fails the handler's
\* conn.close() raises UnboundLocalError; ret is cursor.lastrowid.
create_word(table, seq, clock, english_word, khmer_word, word_type, definition, example, fault) ==
    LET t == IF word_type = Absent THEN noun ELSE word_type
        d == IF definition = Absent THEN <<>> ELSE definition
        x == IF example = Absent THEN <<>> ELSE example
        st == Insert([table |-> table, seq |-> seq, clash |-> FALSE],
                     <<strip(lower(english_word)), strip(khmer_word), t, d, x>>, clock)
    IN IF fault = "connect"
       THEN Outcome(table, seq, "UnboundLocalError", "OperationalError", 0)
       ELSE IF fault = "execute"
       THEN Outcome(table, seq, "ValueError: Database error", "OperationalError", 0)
       ELSE IF st.clash
       THEN Outcome(table, seq, "ValueError: Word already exists", "IntegrityError", 0)
       ELSE IF fault = "commit"
       THEN Outcome(table, seq, "ValueError: Database error", "OperationalError", 0)
       ELSE Outcome(st.table, st.seq, "none", "none", st.seq)

\* Mutant: the new english_word is trimmed but not lower-cased.
SetColumns_no_lower(r, english_word, khmer_word, word_type, definition, example, clock) ==
    [r EXCEPT
        !.english_word = IF english_word # None THEN strip(english_word) ELSE @,
        !.khmer_word = IF khmer_word # None THEN strip(khmer_word) ELSE @,
        !.word_type = IF word_type # None THEN word_type ELSE @,
        !.definition = IF definition # None THEN definition ELSE @,
        !.example_sentence = IF example # None THEN example ELSE @,
        !.updated_at = clock]

\* Mutant: definition and example_sentence are always in the SET list, so an
\* argument left out is written as NULL.
SetColumns_writes_null(r, english_word, khmer_word, word_type, definition, example, clock) ==
    [r EXCEPT
        !.english_word = IF english_word # None THEN strip(lower(english_word)) ELSE @,
        !.khmer_word = IF khmer_word # None THEN strip(khmer_word) ELSE @,
        !.word_type = IF word_type # None THEN word_type ELSE @,
        !.definition = definition,
        !.example_sentence = example,
        !.updated_at = clock]

\* Mutant: updated_at is not in the SET list.
SetColumns_keeps_updated_at(r, english_word, khmer_word, word_type, definition, example, clock) ==
    [r EXCEPT
        !.english_word = IF english_word # None THEN strip(lower(english_word)) ELSE @,
        !.khmer_word = IF khmer_word # None THEN strip(khmer_word) ELSE @,
        !.word_type = IF word_type # None THEN word_type ELSE @,
        !.definition = IF definition # None THEN definition ELSE @,
        !.example_sentence = IF example # None THEN example ELSE @]

\* Mutant: created_at is in the SET list as well.
SetColumns_sets_created_at(r, english_word, khmer_word, word_type, definition, example, clock) ==
    [r EXCEPT
        !.english_word = IF english_word # None THEN strip(lower(english_word)) ELSE @,
        !.khmer_word = IF khmer_word # None THEN strip(khmer_word) ELSE @,
        !.word_type = IF word_type # None THEN word_type ELSE @,
        !.definition = IF definition # None THEN definition ELSE @,
        !.example_sentence = IF example # None THEN example ELSE @,
        !.created_at = clock,
        !.updated_at = clock]

\* The row an UPDATE leaves: each column of the SET list gets its new value,
\* a column not in the list (its argument is None) keeps its value.
SetColumns(r, english_word, khmer_word, word_type, definition, example, clock) ==
    [r EXCEPT
        !.english_word = IF english_word # None THEN strip(lower(english_word)) ELSE @,
        !.khmer_word = IF khmer_word # None THEN strip(khmer_word) ELSE @,
        !.word_type = IF word_type # None THEN word_type ELSE @,
        !.definition = IF definition # None THEN definition ELSE @,
        !.example_sentence = IF example # None THEN example ELSE @,
        !.updated_at = clock]

\* Mutant: UPDATE OR REPLACE, which drops the other row holding the word.
update_word_or_replace(table, seq, clock, word_id, english_word, khmer_word, word_type, definition, example, fault) ==
    LET target == {r \in table : r.id = word_id}
        changed == {SetColumns(r, english_word, khmer_word, word_type,
                               definition, example, clock) : r \in target}
        kept == {r \in table \ target :
                    \A c \in changed : c.english_word # r.english_word}
    IN IF fault = "connect"
       THEN Outcome(table, seq, "sqlite3.OperationalError", "OperationalError", FALSE)
       ELSE IF fault \in {"execute", "commit"}
       THEN Outcome(table, seq, "ValueError: Update error", "OperationalError", FALSE)
       ELSE Outcome(kept \cup changed, seq, "none", "none", target # {})

\* Mutant: returns affected_rows >= 0.
update_word_always_true(table, seq, clock, word_id, english_word, khmer_word, word_type, definition, example, fault) ==
    LET target == {r \in table : r.id = word_id}
        changed == {SetColumns(r, english_word, khmer_word, word_type,
                               definition, example, clock) : r \in target}
    IN IF fault = "connect"
       THEN Outcome(table, seq, "sqlite3.OperationalError", "OperationalError", FALSE)
       ELSE IF fault = "execute"
       THEN Outcome(table, seq, "ValueError: Update error", "OperationalError", FALSE)
       ELSE IF \E r \in changed : UniqueClash(table, r.english_word, word_id)
       THEN Outcome(table, seq, "ValueError: Update error", "IntegrityError", FALSE)
       ELSE IF fault = "commit"
       THEN Outcome(table, seq, "ValueError: Update error", "OperationalError", FALSE)
       ELSE Outcome((table \ target) \cup changed, seq, "none", "none", TRUE)

update_word(table, seq, clock, word_id, english_word, khmer_word, word_type, definition, example, fault) ==
    LET target == {r \in table : r.id = word_id}
        changed == {SetColumns(r, english_word, khmer_word, word_type,
                               definition, example, clock) : r \in target}
    IN IF fault = "connect"
       THEN Outcome(table, seq, "sqlite3.OperationalError", "OperationalError", FALSE)
       ELSE IF fault = "execute"
       THEN Outcome(table, seq, "ValueError: Update error", "OperationalError", FALSE)
       ELSE IF \E r \in changed : UniqueClash(table, r.english_word, word_id)
       THEN Outcome(table, seq, "ValueError: Update error", "IntegrityError", FALSE)
       ELSE IF fault = "commit"
       THEN Outcome(table, seq, "ValueError: Update error", "OperationalError", FALSE)
       ELSE Outcome((table \ target) \cup changed, seq, "none", "none", target # {})

\* Mutant: returns affected_rows >= 0.
delete_word_always_true(table, seq, word_id, fault) ==
    LET target == {r \in table : r.id = word_id}
    IN IF fault = "connect"
       THEN Outcome(table, seq, "sqlite3.OperationalError", "OperationalError", FALSE)
       ELSE IF fault \in {"execute", "commit"}
       THEN Outcome(table, seq, "ValueError: Delete error", "OperationalError", FALSE)
       ELSE Outcome(table \ target, seq, "none", "none", TRUE)

delete_word(table, seq, word_id, fault) ==
    LET target == {r \in table : r.id = word_id}
    IN IF fault = "connect"
       THEN Outcome(table, seq, "sqlite3.OperationalError", "OperationalError", FALSE)
       ELSE IF fault \in {"execute", "commit"}
       THEN Outcome(table, seq, "ValueError: Delete error", "OperationalError", FALSE)
       ELSE Outcome(table \ target, seq, "none", "none", target # {})

\* Mutant: no ORDER BY clause, the rows come in rowid order.
RECURSIVE OrderBy_rowid(_, _)
OrderBy_rowid(rows, key) ==
    IF rows = {} THEN <<>>
    ELSE LET first == CHOOSE r \in rows : \A q \in rows : r.id <= q.id
         IN <<first>> \o OrderBy_rowid(rows \ {first}, key)

\* ORDER BY key: the rows of `rows` as a sequence ascending by column `key`
\* (rows equal on the key come in rowid order).
RECURSIVE OrderBy(_, _)
OrderBy(rows, key) ==
    IF rows = {} THEN <<>>
    ELSE LET first == CHOOSE r \in rows : \A q \in rows \ {r} :
                          \/ TextLess(r[key], q[key])
                          \/ (~TextLess(q[key], r[key]) /\ r.id < q.id)
         IN <<first>> \o OrderBy(rows \ {first}, key)

\* read_word: the exception handler answers every fault after connect with [].
read_word(table, search_term, search_type, fault) ==
    IF fault = "connect"
    THEN [err |-> "sqlite3.OperationalError", ret |-> <<>>]
    ELSE IF fault = "execute"
    THEN [err |-> "none", ret |-> <<>>]
    ELSE IF search_type = "english"
    THEN [err |-> "none",
          ret |-> OrderBy({r \in table :
                              \/ Like(r.english_word, <<"%">> \o lower(search_term) \o <<"%">>)
                              \/ r.english_word = lower(search_term)},
                          "english_word")]
    ELSE [err |-> "none",
          ret |-> OrderBy({r \in table :
                              Like(r.khmer_word, <<"%">> \o search_term \o <<"%">>)},
                          "khmer_word")]

read_all_words(table, fault) ==
    IF fault = "connect"
    THEN [err |-> "sqlite3.OperationalError", ret |-> <<>>]
    ELSE IF fault = "execute"
    THEN [err |-> "none", ret |-> <<>>]
    ELSE [err |-> "none", ret |-> OrderBy(table, "english_word")]

\* The sequences of n distinct rows of `rows`, in every order.
RECURSIVE Samples(_, _)
Samples(rows, n) ==
    IF n = 0 \/ rows = {} THEN {<<>>}
    ELSE UNION {{<<r>> \o s : s \in Samples(rows \ {r}, n - 1)} : r \in rows}

\* Mutant: the LIMIT clause is left out, every row comes back.
get_random_words_no_limit(table, seq, limit, fault) ==
    IF fault = "connect"
    THEN {Outcome(table, seq, "sqlite3.OperationalError", "OperationalError", <<>>)}
    ELSE IF fault = "execute"
    THEN {Outcome(table, seq, "none", "OperationalError", <<>>)}
    ELSE {Outcome(table, seq, "none", "none", s) : s \in Samples(table, Cardinality(table))}

\* get_random_words: ORDER BY RANDOM() LIMIT ? gives the rows in any order,
\* cut after `limit` of them (a negative LIMIT cuts nothing).  The set of the
\* outcomes the call can have; the handler answers a failed SELECT with [].
get_random_words(table, seq, limit, fault) ==
    LET n == IF limit < 0 \/ limit > Cardinality(table) THEN Cardinality(table) ELSE limit
    IN IF fault = "connect"
       THEN {Outcome(table, seq, "sqlite3.OperationalError", "OperationalError", <<>>)}
       ELSE IF fault = "execute"
       THEN {Outcome(table, seq, "none", "OperationalError", <<>>)}
       ELSE {Outcome(table, seq, "none", "none", s) : s \in Samples(table, n)}

(* ------------- SQL issued by DictionaryManagerWidget itself ------------- *)

\* current_edit_id when no word is being edited (Python's None).
NoEdit == 0

\* Is text s a literal substring of text t (Python's `s in t`)?
Contains(t, s) ==
    \E k \in 0..(Len(t) - Len(s)) : SubSeq(t, k + 1, k + Len(s)) = s

\* refresh_dictionary: the rows it hands to the table model.
refresh_dictionary(table) == read_all_words(table, "none").ret

\* filter_dictionary: the rows it hands to the table model for the text of
\* filter_input; an empty text is a refresh.
filter_dictionary(table, text) ==
    LET filter == lower(strip(text))
        words == read_all_words(table, "none").ret
        Matches(word) ==
            \/ Contains(lower(word.english_word), filter)
            \/ Contains(word.khmer_word, filter)
            \/ Contains(lower(word.word_type), filter)
            \/ Contains(lower(IF word.definition = None THEN <<>> ELSE word.definition),
                        filter)
    IN IF filter = <<>> THEN refresh_dictionary(table)
       ELSE SelectSeq(words, Matches)

\* DictionaryManagerWidget.create_word up to the dialog it shows (err): the
\* trimmed texts of the form go to DictionaryDatabase.create_word, whose
\* ValueError is caught; another exception leaves the handler as raised.
manager_create_word(table, seq, clock, english_text, khmer_text, word_type, definition_text, example_text, fault) ==
    LET english == strip(english_text)
        khmer == strip(khmer_text)
        o == create_word(table, seq, clock, english, khmer, word_type,
                         strip(definition_text), strip(example_text), fault)
    IN IF english = <<>> \/ khmer = <<>>
       THEN Outcome(table, seq, "Input Error", "none", 0)
       ELSE IF o.err = "none"
       THEN Outcome(o.table, o.seq, "Success", "none", o.ret)
       ELSE IF o.err \in {"ValueError: Database error", "ValueError: Word already exists"}
       THEN Outcome(table, seq, "Error", o.cause, 0)
       ELSE Outcome(table, seq, o.err, o.cause, 0)

\* cancel_edit: the value it leaves in current_edit_id.
cancel_edit(current_edit_id) == NoEdit

\* word_updated = pyqtSignal(int): emit(arg) delivers an int and raises
\* TypeError for None.
word_updated_emit(arg) ==
    IF arg = NoEdit THEN "TypeError" ELSE "emitted"

\* DictionaryManagerWidget.update_word up to the dialog it shows: the form's
\* texts are trimmed, an empty text leaves its column out of the SET list.
\* When a row was affected it calls cancel_edit(), refreshes the table and
\* emits word_updated with what current_edit_id then holds; an exception of
\* emit is caught by the handler of the whole block.
\* err is the dialog shown, ret whether a row was affected.
manager_update_word(table, seq, clock, current_edit_id, english_text, khmer_text, word_type, definition_text, example_text, fault) ==
    LET english == strip(english_text)
        khmer == strip(khmer_text)
        definition == strip(definition_text)
        example == strip(example_text)
        target == {r \in table : r.id = current_edit_id}
        changed == {SetColumns(r, english, khmer,
                               IF word_type # <<>> THEN word_type ELSE None,
                               IF definition # <<>> THEN definition ELSE None,
                               IF example # <<>> THEN example ELSE None,
                               clock) : r \in target}
    IN IF current_edit_id = NoEdit
       THEN Outcome(table, seq, "No Word Selected", "none", FALSE)
       ELSE IF english = <<>> \/ khmer = <<>>
       THEN Outcome(table, seq, "Input Error", "none", FALSE)
       ELSE IF fault \in {"connect", "execute"}
       THEN Outcome(table, seq, "Update Error: Failed to update word", "OperationalError", FALSE)
       ELSE IF \E r \in changed : UniqueClash(table, r.english_word, current_edit_id)
       THEN Outcome(table, seq, "Update Error: already exists", "IntegrityError", FALSE)
       ELSE IF fault = "commit"
       THEN Outcome(table, seq, "Update Error: Failed to update word", "OperationalError", FALSE)
       ELSE IF target = {}
       THEN Outcome(table, seq, "Update Failed", "none", FALSE)
       ELSE IF word_updated_emit(cancel_edit(current_edit_id)) = "TypeError"
       THEN Outcome((table \ target) \cup changed, seq,
                    "Update Error: Failed to update word", "TypeError", TRUE)
       ELSE Outcome((table \ target) \cup changed, seq, "Success", "none", TRUE)

\* DictionaryManagerWidget.delete_selected_word once the user confirmed:
\* its own DELETE for the id of the selected table row.
manager_delete_selected_word(table, seq, word_id, fault) ==
    LET target == {r \in table : r.id = word_id}
    IN IF fault # "none"
       THEN Outcome(table, seq, "Delete Error", "OperationalError", FALSE)
       ELSE Outcome(table \ target, seq,
                    IF target # {} THEN "Success" ELSE "Delete Failed", "none", target # {})

(* ------------------------------ behaviour ------------------------------ *)

\* A faulting call is explored with one choice of its other arguments.
Under(fault, S) == IF fault = "none" THEN S ELSE {CHOOSE x \in S : TRUE}

\* Connections a call of `op` has left open when it returns or raises.  Only
\* init_database and the manager's DELETE have a path that passes no
\* conn.close(): a fault after connect, which init_database does not catch
\* and whose handler in delete_selected_word only shows a dialog.
LeftOpen(op, fault) ==
    IF op \in {"init_database", "manager_delete_selected_word"}
       /\ fault \in {"execute", "commit"}
    THEN 1 ELSE 0

\* The signal a call of `op` left emitted: word_added, word_updated and
\* word_deleted of the manager form, after a statement that affected a row.
Emitted(op, args, o) ==
    IF op = "manager_create_word" /\ o.err = "Success"
    THEN <<"word_added", strip(args[1])>>
    ELSE IF op = "manager_update_word" /\ o.ret = TRUE
       /\ word_updated_emit(cancel_edit(args[1])) = "emitted"
    THEN <<"word_updated", cancel_edit(args[1])>>
    ELSE IF op = "manager_delete_selected_word" /\ o.ret = TRUE
    THEN <<"word_deleted", args[1]>>
    ELSE <<>>

\* Does this call of the manager form end in refresh_dictionary()?  It does
\* after a statement that affected a row.
Refreshes(op, o) ==
    IF op = "manager_create_word" THEN o.err = "Success" ELSE o.ret = TRUE

\* The call `op` with arguments `args` (the fault last) took effect as outcome
\* o on the database.
Call(op, args, o) ==
    /\ dictionary' = o.table
    /\ sqlite_sequence' = o.seq
    /\ ever' = ever \cup Ids(o.table)
    /\ nops' = nops + 1
    /\ open_conns' = open_conns + LeftOpen(op, args[Len(args)])
    /\ signal' = Emitted(op, args, o)
    /\ last' = [op |-> op, args |-> args, err |-> o.err, cause |-> o.cause, ret |-> o.ret]
    /\ UNCHANGED now

\* A call of a DictionaryDatabase method: the manager's table is not told.
Apply(op, args, o) ==
    /\ Call(op, args, o)
    /\ UNCHANGED <<filter_text, table_model>>

\* A handler of the manager form: after a statement that affected a row the
\* table is refreshed, whatever filter_input holds.
ManagerApply(op, args, o) ==
    /\ Call(op, args, o)
    /\ table_model' = IF Refreshes(op, o) THEN refresh_dictionary(o.table) ELSE table_model
    /\ UNCHANGED filter_text

\* DictionaryDatabase() on a file that does not exist yet.
Init ==
    LET o == init_database({}, 0, 0, "none")
    IN /\ dictionary = o.table
       /\ sqlite_sequence = o.seq
       /\ now = 0
       /\ ever = Ids(o.table)
       /\ nops = 0
       /\ open_conns = 0
       /\ signal = <<>>
       /\ filter_text = <<>>
       /\ table_model = refresh_dictionary(o.table)
       /\ last = [op |-> "init_database", args |-> <<"none">>, err |-> o.err,
                  cause |-> o.cause, ret |-> o.ret]

\* DictionaryDatabase() again on the same file (the application restarts).
InitDatabase ==
    /\ nops < MaxOps
    /\ \E fault \in Faults :
          Apply("init_database", <<fault>>,
                init_database(dictionary, sqlite_sequence, now, fault))

\* create_word(...): the optional arguments are all left out (Absent), all
\* given as text, or definition alone is given, as None.
CreateWord ==
    /\ nops < MaxOps
    /\ \E fault \in Faults :
       \E english_word \in Under(fault, EnglishInputs),
          khmer_word \in KhmerInputs,
          optional \in Under(fault, OptionalInputs) :
          Apply("create_word",
                <<english_word, khmer_word, optional[1], optional[2], optional[3], fault>>,
                create_word(dictionary, sqlite_sequence, now, english_word, khmer_word,
                            optional[1], optional[2], optional[3], fault))

UpdateWord ==
    /\ nops < MaxOps
    /\ \E fault \in Faults :
       \E word_id \in Under(fault, 1..(sqlite_sequence + 1)),
          english_word \in Under(fault, RenameInputs \cup {None}),
          khmer_word \in Under(fault, KhmerInputs \cup {None}),
          word_type \in Under(fault, TypeInputs \cup {None}),
          definition \in Under(fault, {<<>>, None}),
          example \in Under(fault, {<<>>, None}) :
          Apply("update_word",
                <<word_id, english_word, khmer_word, word_type, definition, example, fault>>,
                update_word(dictionary, sqlite_sequence, now, word_id, english_word,
                            khmer_word, word_type, definition, example, fault))

DeleteWord ==
    /\ nops < MaxOps
    /\ \E fault \in Faults :
       \E word_id \in Under(fault, 1..(sqlite_sequence + 1)) :
          Apply("delete_word", <<word_id, fault>>,
                delete_word(dictionary, sqlite_sequence, word_id, fault))

\* The manager form's Update button; current_edit_id is the id of any row the
\* table showed when Edit was pressed, or NoEdit.
ManagerUpdateWord ==
    /\ nops < MaxOps
    /\ \E fault \in Faults :
       \E current_edit_id \in Under(fault, ever \cup {NoEdit}),
          english_text \in Under(fault, RenameInputs),
          khmer_text \in KhmerInputs,
          word_type \in TypeInputs,
          definition_text \in Under(fault, {<<>>, <<"d">>}),
          example_text \in Under(fault, {<<>>, <<"e">>}) :
          ManagerApply("manager_update_word",
                <<current_edit_id, english_text, khmer_text, word_type,
                  definition_text, example_text, fault>>,
                manager_update_word(dictionary, sqlite_sequence, now, current_edit_id,
                                    english_text, khmer_text, word_type,
                                    definition_text, example_text, fault))

\* The manager form's Delete button, confirmed, on any row the table shows.
ManagerDeleteSelectedWord ==
    /\ nops < MaxOps
    /\ table_model # <<>>
    /\ \E fault \in Faults :
       \E word_id \in Under(fault, {table_model[i].id : i \in 1..Len(table_model)}) :
          ManagerApply("manager_delete_selected_word", <<word_id, fault>>,
                manager_delete_selected_word(dictionary, sqlite_sequence, word_id, fault))

\* The manager form's Add button.
ManagerCreateWord ==
    /\ nops < MaxOps
    /\ \E fault \in Faults :
       \E english_text \in Under(fault, EnglishInputs),
          khmer_text \in KhmerInputs,
          word_type \in Under(fault, {noun} \cup TypeInputs),
          definition_text \in Under(fault, {<<>>, <<"d">>}) :
          ManagerApply("manager_create_word",
                       <<english_text, khmer_text, word_type, definition_text, <<>>, fault>>,
                       manager_create_word(dictionary, sqlite_sequence, now, english_text,
                                           khmer_text, word_type, definition_text, <<>>,
                                           fault))

\* A text is typed into filter_input: textChanged calls filter_dictionary.
FilterDictionary ==
    /\ nops < MaxOps
    /\ \E text \in FilterInputs \ {filter_text} :
          /\ Call("filter_dictionary", <<text, "none">>,
                  Outcome(dictionary, sqlite_sequence, "none", "none", TRUE))
          /\ filter_text' = text
          /\ table_model' = filter_dictionary(dictionary, text)

\* The manager's Refresh button: clicked calls refresh_dictionary.
RefreshDictionary ==
    /\ nops < MaxOps
    /\ Call("refresh_dictionary", <<"none">>,
            Outcome(dictionary, sqlite_sequence, "none", "none", TRUE))
    /\ table_model' = refresh_dictionary(dictionary)
    /\ UNCHANGED filter_text

\* get_random_words(limit); nothing is committed, so the faults are those of
\* connect and of the SELECT.
GetRandomWords ==
    /\ nops < MaxOps
    /\ \E fault \in {"none", "connect", "execute"} :
       \E limit \in Under(fault, LimitInputs) :
       \E o \in get_random_words(dictionary, sqlite_sequence, limit, fault) :
          Apply("get_random_words", <<limit, fault>>, o)

\* A second passes.
Tick ==
    /\ now < MaxClock
    /\ now' = now + 1
    /\ last' = [op |-> "tick", args |-> <<>>, err |-> "none", cause |-> "none", ret |-> TRUE]
    /\ signal' = <<>>
    /\ UNCHANGED <<dictionary, sqlite_sequence, ever, nops, open_conns,
                   filter_text, table_model>>

\* The interpreter finalizes the Connection objects no frame refers to any
\* more, which closes them; when it does so is up to its collector.
Collect ==
    /\ open_conns > 0
    /\ open_conns' = 0
    /\ UNCHANGED <<dictionary, sqlite_sequence, now, ever, nops, signal,
                   filter_text, table_model, last>>

Next ==
    \/ InitDatabase
    \/ CreateWord
    \/ UpdateWord
    \/ DeleteWord
    \/ ManagerUpdateWord
    \/ ManagerDeleteSelectedWord
    \/ GetRandomWords
    \/ Tick
    \/ Collect

Spec == Init /\ [][Next]_vars

\* A session at the manager form alone: every change of the database is made
\* through the form.
ManagerNext ==
    \/ FilterDictionary
    \/ RefreshDictionary
    \/ ManagerCreateWord
    \/ ManagerUpdateWord
    \/ ManagerDeleteSelectedWord

ManagerSpec == Init /\ [][ManagerNext]_vars

(* ------------------------------- claims -------------------------------- *)

\* The step is a call of `op` (every call counts in nops; a Tick does not).
IsCall(op) == nops' = nops + 1 /\ last'.op = op

\* A text with no upper-case letter and no space at either end.
IsLowerTrimmed(s) ==
    /\ \A i \in 1..Len(s) : s[i] \notin {"A", "B", "K"}
    /\ s # <<>> => (s[1] # " " /\ s[Len(s)] # " ")

\* The row of `table` with this id (the table has one, ids being the key).
RowOf(table, id) == CHOOSE r \in table : r.id = id

\* The entries of a result sequence.
Range(seq) == {seq[i] : i \in 1..Len(seq)}

\* C1: in every reachable state no two stored entries share an english_word,
\* and every english_word in the table is lower-case and trimmed, whatever
\* initialization, create_word, update_word, the manager's UPDATE and the
\* deletes have done.
C1_UniqueNormalizedSourceTerm ==
    /\ \A r, q \in dictionary : r.english_word = q.english_word => r = q
    /\ \A r \in dictionary : IsLowerTrimmed(r.english_word)

\* C1 witness: an update_word given an upper-case, padded word renamed a row
\* of a table that holds two rows.
C1_Witness ==
    /\ last.op = "update_word" /\ last.err = "none" /\ last.ret
    /\ last.args[2] = <<"A", " ">>
    /\ Cardinality(dictionary) = 2
    /\ RowOf(dictionary, last.args[1]).english_word = <<"a">>

\* C2 as stated: after a create_word that succeeded, read_word of the very
\* english_word passed to it returns exactly one entry, whose fields are the
\* normalized values passed.
C2_Original ==
    (last.op = "create_word" /\ last.err = "none") =>
        LET found == read_word(dictionary, last.args[1], "english", "none").ret
        IN /\ Len(found) = 1
           /\ found[1].id = last.ret
           /\ found[1].english_word = strip(lower(last.args[1]))
           /\ found[1].khmer_word = strip(last.args[2])

\* C2 amended: after a create_word that succeeded, read_word of the normalized
\* english_word returns a sequence in which exactly one entry has that
\* english_word; it is the entry created, with the normalized values passed.
\* The sequence may hold other entries, whose english_word contains the term.
C2_AddThenFindNormalized ==
    (last.op = "create_word" /\ last.err = "none") =>
        LET term == strip(lower(last.args[1]))
            found == read_word(dictionary, term, "english", "none").ret
            exact == {i \in 1..Len(found) : found[i].english_word = term}
        IN /\ Cardinality(exact) = 1
           /\ \A i \in exact :
                /\ found[i].id = last.ret
                /\ found[i].khmer_word = strip(last.args[2])
                /\ found[i].word_type = (IF last.args[3] = Absent THEN noun ELSE last.args[3])
                /\ found[i].definition = (IF last.args[4] = Absent THEN <<>> ELSE last.args[4])
                /\ found[i].example_sentence = (IF last.args[5] = Absent THEN <<>> ELSE last.args[5])
           /\ \A i \in 1..Len(found) : Like(found[i].english_word, <<"%">> \o term \o <<"%">>)

\* C2 witness: create_word(" B", " K") succeeded and read_word("b") returns
\* the new entry together with "ab".
C2_Witness ==
    /\ last.op = "create_word" /\ last.err = "none"
    /\ last.args[1] = <<" ", "B">>
    /\ Len(read_word(dictionary, <<"b">>, "english", "none").ret) = 2

\* C3: a create_word whose english_word, lower-cased and trimmed, is that of
\* an existing entry raises the "already exists" ValueError, and
\* read_all_words() returns afterwards the sequence it returned before.
C3_DuplicateAddRejected ==
    [][(/\ IsCall("create_word")
        /\ last'.args[6] = "none"
        /\ \E r \in dictionary : r.english_word = strip(lower(last'.args[1])))
       => /\ last'.err = "ValueError: Word already exists"
          /\ read_all_words(dictionary', "none").ret = read_all_words(dictionary, "none").ret
          /\ dictionary' = dictionary]_vars

\* C3 witness: create_word("A ") was rejected while "a" is stored.
C3_Witness ==
    /\ last.op = "create_word" /\ last.err = "ValueError: Word already exists"
    /\ last.args[1] = <<"A", " ">>
    /\ \E r \in dictionary : r.english_word = <<"a">>

\* C4: an update_word of an existing id whose english_word, normalized, is
\* that of a different entry raises an error and leaves every row of the
\* table, the one at id included, as it was.
C4_CollidingRenameRejected ==
    [][(/\ IsCall("update_word")
        /\ last'.args[7] = "none"
        /\ last'.args[2] # None
        /\ last'.args[1] \in Ids(dictionary)
        /\ \E r \in dictionary : /\ r.id # last'.args[1]
                                    /\ r.english_word = strip(lower(last'.args[2])))
       => /\ last'.err # "none"
          /\ dictionary' = dictionary]_vars

\* C4 witness: update_word(id, "A ", khmer_word given too) raised while
\* another row holds "a".
C4_Witness ==
    /\ last.op = "update_word" /\ last.cause = "IntegrityError"
    /\ last.args[2] = <<"A", " ">> /\ last.args[3] # None
    /\ \E r \in dictionary : r.id # last.args[1] /\ r.english_word = <<"a">>
    /\ RowOf(dictionary, last.args[1]).english_word = <<"a", "b">>

\* C5: for create_word and update_word, the error the caller gets for a
\* uniqueness violation differs from the error the same method raises for
\* another persistence failure.
C5_DistinctErrorKinds ==
    /\ (last.op = "create_word" /\ last.cause = "IntegrityError") =>
          last.err # create_word(dictionary, sqlite_sequence, now, last.args[1],
                                 last.args[2], last.args[3], last.args[4],
                                 last.args[5], "execute").err
    /\ (last.op = "update_word" /\ last.cause = "IntegrityError") =>
          last.err # update_word(dictionary, sqlite_sequence, now, last.args[1],
                                 last.args[2], last.args[3], last.args[4],
                                 last.args[5], last.args[6], "execute").err

\* C6: a row that enters the table gets an id greater than every id any row
\* was ever inserted with, so no id is used twice.
C6_IdsNeverReused ==
    [][\A r \in dictionary' :
          r.id \notin Ids(dictionary) => \A i \in ever : i < r.id]_vars

\* C6 witness: the only entry was removed and re-initialization seeded the
\* table again, under a new id.
C6_Witness ==
    /\ last.op = "init_database" /\ last.err = "none" /\ nops = 2
    /\ Ids(dictionary) = {2}
    /\ ever = {1, 2}

\* C7: an update_word that returns True changes, in the row at word_id, only
\* columns whose argument was given (and updated_at): a column whose argument
\* is None keeps its value, id and created_at keep theirs, and every other
\* row of the table is as it was.
C7_UpdateFrame ==
    [][(IsCall("update_word") /\ last'.err = "none" /\ last'.ret)
       => LET id == last'.args[1]
          IN /\ id \in Ids(dictionary) /\ id \in Ids(dictionary')
             /\ Cardinality(dictionary') = Cardinality(dictionary)
             /\ {q \in dictionary' : q.id # id} = {q \in dictionary : q.id # id}
             /\ LET old == RowOf(dictionary, id)
                    new == RowOf(dictionary', id)
                IN /\ new.created_at = old.created_at
                   /\ last'.args[2] = None => new.english_word = old.english_word
                   /\ last'.args[3] = None => new.khmer_word = old.khmer_word
                   /\ last'.args[4] = None => new.word_type = old.word_type
                   /\ last'.args[5] = None => new.definition = old.definition
                   /\ last'.args[6] = None => new.example_sentence = old.example_sentence]_vars

\* C7 witness: update_word with only word_type and example given returned
\* True on a table of two rows, and the row still has its definition.
C7_Witness ==
    /\ last.op = "update_word" /\ last.err = "none" /\ last.ret
    /\ last.args[2] = None /\ last.args[3] = None /\ last.args[5] = None
    /\ last.args[4] = verb /\ last.args[6] = <<>>
    /\ Cardinality(dictionary) = 2
    /\ RowOf(dictionary, last.args[1]).definition = <<"d">>
    /\ RowOf(dictionary, last.args[1]).example_sentence = <<>>

\* C8: update_word(id) with no field given, for the id of any stored entry,
\* returns True, sets updated_at to the current timestamp, leaves every other
\* column of the entry as it was, and read_word of the entry's english_word
\* still returns the entry.
C8_EmptyUpdateTouches ==
    [][(/\ IsCall("update_word")
        /\ last'.args[7] = "none"
        /\ \A i \in 2..6 : last'.args[i] = None
        /\ last'.args[1] \in Ids(dictionary))
       => LET old == RowOf(dictionary, last'.args[1])
              new == [old EXCEPT !.updated_at = now']
          IN /\ last'.err = "none" /\ last'.ret
             /\ dictionary' = (dictionary \ {old}) \cup {new}
             /\ new \in Range(read_word(dictionary', old.english_word,
                                         "english", "none").ret)]_vars

\* C8 witness: an update_word with no field given returned True a second
\* after the entry was created, so its updated_at moved.
C8_Witness ==
    /\ last.op = "update_word" /\ last.err = "none" /\ last.ret
    /\ \A i \in 2..6 : last.args[i] = None
    /\ RowOf(dictionary, last.args[1]).created_at = 0
    /\ RowOf(dictionary, last.args[1]).updated_at = 1

\* C9: an update_word that meets no persistence fault and returns, returns
\* True exactly when a row with word_id existed at the call; when none did it
\* raises nothing, returns False and leaves the table as it was.
C9_UpdateReturnsExistence ==
    [][(IsCall("update_word") /\ last'.args[7] = "none")
       => /\ last'.err = "none" => (last'.ret <=> last'.args[1] \in Ids(dictionary))
          /\ last'.args[1] \notin Ids(dictionary) =>
                /\ last'.err = "none" /\ ~last'.ret
                /\ dictionary' = dictionary
                /\ sqlite_sequence' = sqlite_sequence]_vars

\* C9 witness: update_word of an id no row has, with a word another row
\* holds, returned False.
C9_Witness ==
    /\ last.op = "update_word" /\ last.err = "none" /\ ~last.ret
    /\ last.args[1] \notin Ids(dictionary)
    /\ last.args[2] = <<"a", "b">>
    /\ \E r \in dictionary : r.english_word = <<"a", "b">>

\* C10: a delete_word that meets no persistence fault returns True exactly
\* when a row with word_id existed; the table is then the earlier table less
\* that row.  When none existed it raises nothing, returns False and
\* read_all_words() is as before.
C10_DeleteReturnsExistence ==
    [][(IsCall("delete_word") /\ last'.args[2] = "none")
       => /\ last'.err = "none"
          /\ last'.ret <=> last'.args[1] \in Ids(dictionary)
          /\ dictionary' = {r \in dictionary : r.id # last'.args[1]}
          /\ last'.args[1] \notin Ids(dictionary) =>
                read_all_words(dictionary', "none").ret
                    = read_all_words(dictionary, "none").ret]_vars

\* C10 witness: delete_word removed one of two entries and returned True.
C10_Witness ==
    /\ last.op = "delete_word" /\ last.err = "none" /\ last.ret
    /\ last.args[1] \notin Ids(dictionary)
    /\ last.args[1] \in ever
    /\ Cardinality(dictionary) = 1

\* Is the sequence of rows ascending (not descending anywhere) by column key?
Ascending(rows, key) ==
    \A i, j \in 1..Len(rows) : i < j => ~TextLess(rows[j][key], rows[i][key])

\* C11: read_word(term) for an English search returns exactly the entries
\* whose english_word contains term as a literal substring, letter case
\* aside, for every term ('%', '_' and padded terms included), ascending by
\* english_word.
C11_FindBySourceLiteralSubstring ==
    \A term \in SearchTerms :
        LET found == read_word(dictionary, term, "english", "none").ret
        IN /\ Range(found) = {r \in dictionary :
                                 Contains(lower(r.english_word), lower(term))}
           /\ Len(found) = Cardinality(Range(found))
           /\ Ascending(found, "english_word")

\* C12: read_word(term) for a Khmer search returns exactly the entries whose
\* khmer_word contains term as a substring in the same letter case, ascending
\* by khmer_word.
C12_FindByTargetCaseSensitive ==
    \A term \in KhmerSearchTerms :
        LET found == read_word(dictionary, term, "khmer", "none").ret
        IN /\ Range(found) = {r \in dictionary : Contains(r.khmer_word, term)}
           /\ Len(found) = Cardinality(Range(found))
           /\ Ascending(found, "khmer_word")

\* C13: read_all_words() returns every row of the table exactly once,
\* ascending by english_word, and on an empty table the empty sequence and
\* no error.
C13_ListAllSorted ==
    LET all == read_all_words(dictionary, "none")
    IN /\ all.err = "none"
       /\ Range(all.ret) = dictionary
       /\ Len(all.ret) = Cardinality(dictionary)
       /\ Ascending(all.ret, "english_word")
       /\ dictionary = {} => all.ret = <<>>

\* C13 witness: the table holds two rows and read_all_words() returns the
\* one inserted later first.
C13_Witness ==
    LET all == read_all_words(dictionary, "none").ret
    IN /\ Len(all) = 2
       /\ all[1].id > all[2].id
       /\ all[1].english_word = <<"a">>

\* C14: a get_random_words(limit) with limit >= 0 that meets no fault on a
\* table of m rows returns exactly min(limit, m) rows, pairwise distinct, each
\* one a row read_all_words() returns, and leaves the table as it was.
C14_RandomSampleSize ==
    [][IsCall("get_random_words") /\ last'.cause = "none" /\ last'.args[1] >= 0
       => LET m == Cardinality(dictionary)
              limit == last'.args[1]
              results == last'.ret
          IN /\ Len(results) = IF limit < m THEN limit ELSE m
             /\ \A i, j \in 1..Len(results) : i # j => results[i] # results[j]
             /\ Range(results) \subseteq Range(read_all_words(dictionary, "none").ret)
             /\ dictionary' = dictionary
             /\ sqlite_sequence' = sqlite_sequence]_vars

\* C14 witness: get_random_words(5) on a table of two rows returned both, in
\* the order read_all_words() does not give them.
C14_Witness ==
    /\ last.op = "get_random_words" /\ last.cause = "none" /\ last.args[1] = 5
    /\ Cardinality(dictionary) = 2
    /\ Len(last.ret) = 2
    /\ last.ret # read_all_words(dictionary, "none").ret
\* C15: init_database on a table that holds at least one row, however often
\* it runs, leaves the rows as they are and inserts no row of sample_data
\* (the AUTOINCREMENT sequence does not move).
C15_InitKeepsNonEmptyStore ==
    [][IsCall("init_database") /\ dictionary # {}
       => /\ dictionary' = dictionary
          /\ sqlite_sequence' = sqlite_sequence]_vars

\* C15 witness: init_database returned on a table that holds a row but no
\* longer the word of sample_data, which it could have inserted.
C15_Witness ==
    /\ last.op = "init_database" /\ last.err = "none"
    /\ nops > 0
    /\ dictionary # {}
    /\ \A r \in dictionary : r.english_word # sample_data[1][1]
\* C16: no operation of the store swallows a persistence fault: a create_word,
\* update_word, delete_word or get_random_words that met one did not return
\* as if it had succeeded, and neither would read_word or read_all_words
\* meeting one in this state; the caller gets an exception.
C16_NoFaultSwallowed ==
    /\ last.op \in {"create_word", "update_word", "delete_word", "get_random_words"}
       /\ last.cause = "OperationalError"
       => last.err # "none"
    /\ \A fault \in {"connect", "execute"} :
          /\ read_all_words(dictionary, fault).err # "none"
          /\ \A term \in SearchTerms : read_word(dictionary, term, "english", fault).err # "none"
          /\ \A term \in KhmerSearchTerms : read_word(dictionary, term, "khmer", fault).err # "none"

\* C17: every fault other than a uniqueness violation met by create_word,
\* update_word or delete_word, the failure to connect included, reaches the
\* caller as the ValueError the method's handler raises with the message of
\* the fault, never as another exception.
C17_FaultsSurfaceAsStorageError ==
    last.op \in {"create_word", "update_word", "delete_word"}
    /\ last.cause = "OperationalError"
    => last.err \in {"ValueError: Database error", "ValueError: Update error",
                     "ValueError: Delete error"}

\* C18: every call has closed the connection it opened by the time it
\* returns or raises: between two calls no connection is open.
C18_NoConnectionLeftOpen ==
    open_conns = 0
\* C19: in every reachable state every row has an english_word and a
\* khmer_word that are not NULL, and every row read_word and read_all_words
\* return has text, never None, as word_type, definition and
\* example_sentence, whatever create_word and update_word were given.
C19_NoNullFields ==
    /\ \A r \in dictionary : r.english_word # None /\ r.khmer_word # None
    /\ \A r \in Range(read_all_words(dictionary, "none").ret)
                 \cup UNION {Range(read_word(dictionary, term, "english", "none").ret) :
                                term \in SearchTerms}
                 \cup UNION {Range(read_word(dictionary, term, "khmer", "none").ret) :
                                term \in KhmerSearchTerms} :
          /\ r.word_type # None
          /\ r.definition # None
          /\ r.example_sentence # None
\* C20: a create_word that succeeds returns the id of the one row it
\* inserted, and that row holds english_word lower-cased and trimmed,
\* khmer_word trimmed with its case kept, word_type "noun" when none was
\* given, and definition and example_sentence empty when none was given
\* (what was given is stored as given).
C20_AddReturnsIdOfNormalizedEntry ==
    [][IsCall("create_word") /\ last'.err = "none"
       => LET a == last'.args
              id == last'.ret
              created == dictionary' \ dictionary
          IN /\ id \notin Ids(dictionary)
             /\ dictionary \subseteq dictionary'
             /\ Cardinality(created) = 1
             /\ \A r \in created :
                   /\ r.id = id
                   /\ r.english_word = strip(lower(a[1]))
                   /\ r.khmer_word = strip(a[2])
                   /\ r.word_type = IF a[3] = Absent THEN noun ELSE a[3]
                   /\ r.definition = IF a[4] = Absent THEN <<>> ELSE a[4]
                   /\ r.example_sentence = IF a[5] = Absent THEN <<>> ELSE a[5]]_vars

\* C20 witness: create_word(" B", " K") with no optional argument returned
\* the id of a row ("b", "K", "noun", "", "").
C20_Witness ==
    /\ last.op = "create_word" /\ last.err = "none"
    /\ last.args[1] = <<" ", "B">> /\ last.args[2] = <<" ", "K">>
    /\ last.args[3] = Absent /\ last.args[4] = Absent /\ last.args[5] = Absent
    /\ \E r \in dictionary :
          /\ r.id = last.ret
          /\ r.english_word = <<"b">> /\ r.khmer_word = <<"K">>
          /\ r.word_type = noun /\ r.definition = <<>> /\ r.example_sentence = <<>>
\* C21: no step changes the created_at of an entry (the row of an id keeps
\* the value it was inserted with), and every update that affects a row,
\* through update_word or through the manager form's UPDATE, sets the
\* updated_at of that row to the current timestamp, whichever columns it
\* was given.
C21_TimestampsMaintained ==
    [][/\ \A r \in dictionary : \A q \in dictionary' :
             q.id = r.id => q.created_at = r.created_at
       /\ ((IsCall("update_word") \/ IsCall("manager_update_word")) /\ last'.ret = TRUE)
          => RowOf(dictionary', last'.args[1]).updated_at = now']_vars

\* C21 witness: the manager form's UPDATE affected, a second after it was
\* created, a row that still has its created_at and has the new updated_at.
C21_Witness ==
    /\ last.op = "manager_update_word" /\ last.ret = TRUE
    /\ now = 1
    /\ RowOf(dictionary, last.args[1]).created_at = 0
    /\ RowOf(dictionary, last.args[1]).updated_at = 1
\* C22: update_word(id, english_word = X) where X, lower-cased and trimmed,
\* is the english_word the entry id already has, meets no clash: without a
\* fault it returns True and the entry has the normalized X; and an
\* update_word ends in the uniqueness error only when the normalized X is
\* the english_word of an entry with another id.
C22_RenameToOwnTermSucceeds ==
    [][IsCall("update_word") /\ last'.args[2] # None
       => LET id == last'.args[1]
              X == strip(lower(last'.args[2]))
          IN /\ (/\ last'.args[7] = "none"
                 /\ \E r \in dictionary : r.id = id /\ r.english_word = X)
                => /\ last'.err = "none" /\ last'.ret = TRUE
                   /\ RowOf(dictionary', id).english_word = X
             /\ last'.cause = "IntegrityError"
                => \E r \in dictionary : r.id # id /\ r.english_word = X]_vars

\* C22 witness: the first call made is update_word(1, "ab") with nothing else
\* given, on the entry sample_data gave the english_word "ab"; it returned
\* True and the entry has that word.
C22_Witness ==
    /\ nops = 1
    /\ last.op = "update_word" /\ last.err = "none" /\ last.ret
    /\ last.args[1] = 1 /\ last.args[2] = <<"a", "b">>
    /\ \A i \in 3..6 : last.args[i] = None
    /\ RowOf(dictionary, 1).english_word = <<"a", "b">>
\* C26: an init_database that returns never leaves the table empty: on a
\* table every row of which was deleted it inserts the rows of sample_data
\* again, under ids no row ever had, so no deleted entry is back under its
\* old id.
C26_ReseedAfterDeleteAll ==
    [][IsCall("init_database") /\ last'.err = "none"
       => /\ dictionary' # {}
          /\ dictionary = {}
             => /\ {r.english_word : r \in dictionary'} =
                      {sample_data[i][1] : i \in 1..Len(sample_data)}
                /\ Cardinality(dictionary') = Len(sample_data)
                /\ \A r \in dictionary' : r.id \notin ever /\ r.created_at = now]_vars

\* C26 witness: after the only row was deleted, init_database inserted the
\* word of sample_data again, under id 2.
C26_Witness ==
    /\ nops > 0
    /\ last.op = "init_database" /\ last.err = "none"
    /\ ever = {1, 2}
    /\ Ids(dictionary) = {2}
    /\ RowOf(dictionary, 2).english_word = sample_data[1][1]
\* C23: the manager form's Update button, for a word being edited and a form
\* with English and Khmer text, leaves the table as update_word does when
\* called with the id and the trimmed texts of the form, an emptied
\* definition or example field included.
C23_ManagerUpdateAsStoreUpdate ==
    [][(/\ IsCall("manager_update_word")
        /\ last'.args[1] # NoEdit
        /\ strip(last'.args[2]) # <<>> /\ strip(last'.args[3]) # <<>>)
       => LET a == last'.args
          IN dictionary' = update_word(dictionary, sqlite_sequence, now, a[1],
                                       strip(a[2]), strip(a[3]), a[4],
                                       strip(a[5]), strip(a[6]), a[7]).table]_vars
\* C24: when the manager form's UPDATE affected a row, the word_updated
\* signal emitted carries the id that was being edited, and the dialog shown
\* is the one of success.
C24_WordUpdatedCarriesId ==
    last.op = "manager_update_word" /\ last.ret = TRUE
    => /\ signal = <<"word_updated", last.args[1]>>
       /\ last.err = "Success"
\* C25: after any sequence of manager actions (typing in the filter, Add,
\* Update, Delete, Refresh) the rows the manager's table shows are exactly
\* the entries of the database that match the text of filter_input, all the
\* entries when the text is empty.
C25_TableShowsFilteredStore ==
    Range(table_model) = Range(filter_dictionary(dictionary, filter_text))
====
